---- MODULE Spec2Model ----
(***************************************************************************)
(* Model of chess-game-generator (src/main.go): seeded random game         *)
(* generation over an external rules engine, the line-oriented move-log    *)
(* storage file, the closest-length selector (gamesOfLength) and the       *)
(* result file written at the end of main.                                 *)
(*                                                                         *)
(* Text (file contents, tags, lines) is a sequence of one-character        *)
(* strings.  A position of the rules engine is the sequence of moves       *)
(* played so far; a game is [Tags, Positions, cap] as game.Game is used    *)
(* by main.go (cap is cap(g.Positions)); NilGame is the nil *game.Game.    *)
(***************************************************************************)
EXTENDS Integers, Sequences, FiniteSets, TLC

VARIABLES
    noSearches,     \* the search budget of main
    engine,         \* the rules engine linked in
    storage,        \* ./generateStorage.txt: its lines, without the "\n"
    synced,         \* how many lines of storage the last successful f.Sync covered
    resultFile,     \* ./generated_<noSearches>.txt: its bytes
    pc,             \* where the process is
    gamesOfLength,  \* the table: target length -> best game or NilGame
    startIndex,     \* main's startIndex after the scan loop
    i,              \* main's generation loop variable
    game,           \* main's g in the generation loop: generated, about to be stored
    fOk,            \* whether os.OpenFile of the storage file succeeded
    writerErr,      \* the sticky error of the storage bufio.Writer
    runs,           \* runs of main started so far
    processed,      \* history: the records passed to addToGamesOfLength in this run
    generated,      \* history: the seeds the generation loop generated in this run
    written,        \* history: the bytes passed to the result writer in this run
    tryStringWriter, \* whether this build's bufio hands a large string straight to the file
    faults,         \* file operations that have failed so far
    run,            \* history: what this run found at its start and which file operations failed
    prev            \* history: how the previous run ended, and the result file it left

vars == <<noSearches, engine, storage, synced, resultFile, pc, gamesOfLength,
          startIndex, i, game, fOk, writerErr, runs, processed, generated, written, tryStringWriter, faults, run, prev>>

\* ------------------------------------------------------------------ bounds
MaxSearches == 3      \* largest search budget (noSearches) explored
MaxInitLines == 2     \* longest storage file present before the first run
MaxRuns == 2          \* runs of main in one behaviour
MaxFaults == 1        \* file operations that fail in one behaviour
MaxRecords == 3       \* records fed to the selector in SpecSel
MaxLen == 5           \* longest game fed to the selector in SpecSel
MaxMoves == 3         \* longest move list appended in SpecStore
MaxSeed == 3          \* largest seed given to generateRandomGame in SpecGen
MaxCalls == 2         \* calls of generateRandomGame compared in SpecGen
BufSize == 70         \* size of a bufio.Writer buffer (4096 in Go), scaled to the records here
OldResultLen == 200   \* length of a result file left by an earlier program run

\* ------------------------------------------------------------------ text
DigitChars == <<"0", "1", "2", "3", "4", "5", "6", "7", "8", "9">>

RECURSIVE NatStr(_)
NatStr(n) == IF n < 10 THEN <<DigitChars[n + 1]>>
             ELSE NatStr(n \div 10) \o <<DigitChars[(n % 10) + 1]>>

\* fmt.Sprint of an int
Itoa(n) == IF n < 0 THEN <<"-">> \o NatStr(0 - n) ELSE NatStr(n)

DigitVal(c) == CHOOSE d \in 0..9 : DigitChars[d + 1] = c

IsDigit(c) == \E d \in 0..9 : DigitChars[d + 1] = c

RECURSIVE DigitsVal(_)
DigitsVal(s) == IF s = <<>> THEN 0
                ELSE 10 * DigitsVal(SubSeq(s, 1, Len(s) - 1)) + DigitVal(s[Len(s)])

\* strconv.Atoi: an optional sign, then one or more decimal digits.
Atoi(s) ==
    LET signed == s # <<>> /\ s[1] \in {"+", "-"}
        body == IF signed THEN Tail(s) ELSE s
        ok == body # <<>> /\ \A k \in 1..Len(body) : IsDigit(body[k])
    IN  IF ~ok THEN [err |-> TRUE, n |-> 0]
        ELSE [err |-> FALSE,
              n |-> IF signed /\ s[1] = "-" THEN 0 - DigitsVal(body) ELSE DigitsVal(body)]

\* strings.Split(s, " "): cuts at every space, so it returns k+1 parts for k spaces.
RECURSIVE Split(_)
Split(s) ==
    IF \A k \in 1..Len(s) : s[k] # " " THEN <<s>>
    ELSE LET p == CHOOSE k \in 1..Len(s) : s[k] = " " /\ \A j \in 1..(k - 1) : s[j] # " "
         IN  <<SubSeq(s, 1, p - 1)>> \o Split(SubSeq(s, p + 1, Len(s)))

\* strings.Join(parts, " ")
RECURSIVE Join(_)
Join(parts) == IF parts = <<>> THEN <<>>
               ELSE IF Len(parts) = 1 THEN parts[1]
               ELSE parts[1] \o <<" ">> \o Join(Tail(parts))

\* ---------------------------------------------------------- rules engine
\* A move is [Source, Destination] over three squares; move.Null is the
\* sentinel of the initial position.
Squares == 1..3
Null == [Source |-> 0, Destination |-> 0]
AllMoves == {[Source |-> 1, Destination |-> 2],
             [Source |-> 2, Destination |-> 3],
             [Source |-> 3, Destination |-> 1]}

\* move.Move.String(): the squares' code points, compared as Go compares strings.
MoveString(m) == <<m.Source, m.Destination>>

RECURSIVE StrLess(_, _)
StrLess(a, b) ==
    IF b = <<>> THEN FALSE
    ELSE IF a = <<>> THEN TRUE
    ELSE IF a[1] # b[1] THEN a[1] < b[1]
    ELSE StrLess(Tail(a), Tail(b))

\* The engines explored: a game ends when depth moves were played or the
\* move mate was played; MakeMove fails at position length failAt (-1: never).
Engines ==
    {[depth |-> 3, mate |-> [Source |-> 2, Destination |-> 3], failAt |-> -1],
     [depth |-> 0, mate |-> Null, failAt |-> -1],
     [depth |-> 3, mate |-> [Source |-> 2, Destination |-> 3], failAt |-> 1]}

LastMove(pos) == IF pos = <<>> THEN Null ELSE pos[Len(pos)]

\* g.LegalMoves(): the set of legal moves of a position; empty iff terminal.
LegalMoves(e, pos) ==
    IF Len(pos) >= e.depth \/ (pos # <<>> /\ LastMove(pos) = e.mate) THEN {}
    ELSE AllMoves \ {LastMove(pos)}

\* Position.SAN(move): the notation of a move played from pos.
SquareName == <<"a", "b", "c">>

SAN(e, pos, m) ==
    <<SquareName[m.Source], SquareName[m.Destination]>>
        \o (IF LegalMoves(e, Append(pos, m)) = {} THEN <<"#">> ELSE <<>>)

\* ------------------------------------------------------------------ games
NilGame == [nil |-> TRUE]

MkTags(num, san) == [k \in {"#", "sanMoves"} |-> IF k = "#" THEN num ELSE san]

\* A new game whose tag is not its seed.
NewGameTaggedZero(seed) == [Tags |-> MkTags(Itoa(0), <<>>), Positions |-> <<(<<>>)>>, cap |-> 1]

\* game.New() with Tags["#"] set: one position, the initial one.
NewGame(seed) == [Tags |-> MkTags(Itoa(seed), <<>>), Positions |-> <<(<<>>)>>, cap |-> 1]

\* A stub whose capacity is n.
StubGameCapN(index, moves, n) ==
    [Tags |-> MkTags(Itoa(index), Join(moves)), Positions |-> <<>>, cap |-> n]

\* The stub of the scan loop: no positions, capacity n+1.
StubGame(index, moves, n) ==
    [Tags |-> MkTags(Itoa(index), Join(moves)), Positions |-> <<>>, cap |-> n + 1]

\* A getGameLength that takes a stub's capacity for its length.
getGameLengthCap(g) ==
    IF Len(g.Positions) = 0 THEN g.cap ELSE Len(g.Positions) - 1

getGameLength(g) ==
    IF Len(g.Positions) = 0 THEN g.cap - 1 ELSE Len(g.Positions) - 1

dist(a, b) == IF a > b THEN a - b ELSE b - a

\* The keys of gamesOfLength (10 .. 750 in the source), scaled to the game
\* lengths the engines above produce.
Targets == {1, 3}

\* Mutant of StrictlyCloser: a tie replaces the held record.
CloserOrEqual(l, n, lgn) == dist(l, n) <= dist(l, lgn)

StrictlyCloser(l, n, lgn) == dist(l, n) < dist(l, lgn)

addToGamesOfLength(tbl, g) ==
    LET n == getGameLength(g)
    IN  [l \in Targets |->
            IF tbl[l] = NilGame THEN g
            ELSE IF StrictlyCloser(l, n, getGameLength(tbl[l])) THEN g
            ELSE tbl[l]]

\* getSANMoves: one notation per position that has a last move.
getSANMoves(e, g) ==
    [k \in 1..(Len(g.Positions) - 1) |->
        SAN(e, g.Positions[k], LastMove(g.Positions[k + 1]))]

\* ------------------------------------------------------------- generator
\* The value of the k-th draw (k = 0, 1, ...) of rand.New(rand.NewSource(seed)):
\* a fixed function of the seed and the number of draws made before it.
RndInt(seed, k) == 5 * seed + 3 * k + seed * k + 3

\* rnd.Intn(n) for n > 0 (Intn panics for n <= 0).
Intn(seed, k, n) == RndInt(seed, k) % n

\* The orders in which `for key := range movesMap` may yield the keys.
IterOrders ==
    {s \in [1..Cardinality(AllMoves) -> AllMoves] :
        \A a, b \in 1..Cardinality(AllMoves) : a # b => s[a] # s[b]}

InSet(S, m) == m \in S

RangeMap(moves, iter) == SelectSeq(iter, LAMBDA m : InSet(moves, m))

RECURSIVE InsertSorted(_, _)
InsertSorted(s, m) ==
    IF s = <<>> THEN <<m>>
    ELSE IF StrLess(MoveString(m), MoveString(s[1])) THEN <<m>> \o s
    ELSE <<s[1]>> \o InsertSorted(Tail(s), m)

RECURSIVE SortSlice(_)
SortSlice(s) == IF s = <<>> THEN <<>>
                ELSE InsertSorted(SortSlice(SubSeq(s, 1, Len(s) - 1)), s[Len(s)])

\* Mutant of SortMoves: the slice is left in the order the map yielded it.
UnsortedMoves(s) == s

\* sort.Slice(movesSlice, by String())
SortMoves(s) == SortSlice(s)

\* g.MakeMove(m): an error, or the new position appended and the new status.
MakeMove(e, g, m) ==
    LET pos == g.Positions[Len(g.Positions)]
        new == Append(pos, m)
    IN  IF Len(pos) = e.failAt THEN [g |-> g, gs |-> "InProgress", err |-> TRUE]
        ELSE [g |-> [g EXCEPT !.Positions = Append(@, new), !.cap = Len(g.Positions) + 1],
              gs |-> IF LegalMoves(e, new) = {} THEN "Terminal" ELSE "InProgress",
              err |-> FALSE]

\* One iteration of the loop of generateRandomGame, the k-th, with the map
\* yielding its keys in the order iter.
GenIter(e, g, seed, k, iter) ==
    LET movesMap == LegalMoves(e, g.Positions[Len(g.Positions)])
        movesSlice == SortMoves(RangeMap(movesMap, iter))
    IN  IF Len(movesSlice) = 0
        THEN [g |-> g, gs |-> "InProgress", err |-> FALSE, panic |-> TRUE]
        ELSE LET r == MakeMove(e, g, movesSlice[Intn(seed, k, Len(movesSlice)) + 1])
             IN  [g |-> r.g, gs |-> r.gs, err |-> r.err, panic |-> FALSE]

RECURSIVE GenLoop(_, _, _, _, _)
GenLoop(e, g, seed, k, iter) ==
    LET r == GenIter(e, g, seed, k, iter)
    IN  IF r.panic THEN [g |-> NilGame, err |-> FALSE, panic |-> TRUE]
        ELSE IF r.err THEN [g |-> NilGame, err |-> TRUE, panic |-> FALSE]
        ELSE IF r.gs = "InProgress" THEN GenLoop(e, r.g, seed, k + 1, iter)
        ELSE [g |-> r.g, err |-> FALSE, panic |-> FALSE]

\* generateRandomGame(seed): [g, err, panic]; g is NilGame unless both are FALSE.
generateRandomGame(e, seed, iter) == GenLoop(e, NewGame(seed), seed, 0, iter)

\* ------------------------------------------------- the selector on its own
EmptyTable == [l \in Targets |-> NilGame]

\* A move list of n notations and a played-out game of n half-moves, for
\* records whose content the selector does not read.
SomeMoves(n) == [k \in 1..n |-> <<"a", "b">>]

SomeMove == CHOOSE m \in AllMoves : TRUE

FullGame(index, n) ==
    [Tags |-> MkTags(Itoa(index), <<>>),
     Positions |-> [k \in 1..(n + 1) |-> [j \in 1..(k - 1) |-> SomeMove]],
     cap |-> n + 1]

NoRunInfo == [lines |-> 0, yielded |-> 0, readErr |-> FALSE, result0 |-> <<>>,
              wrFailed |-> FALSE, syncFailed |-> FALSE, resOpenFailed |-> FALSE,
              storeRet |-> <<>>, reported |-> <<>>]

NoPrev == [done |-> FALSE, clean |-> FALSE, result |-> <<>>]

PlainEngine == CHOOSE e \in Engines : e.depth > 0 /\ e.failAt < 0

\* What the variables of main are held at in the specifications of one function.
NoRun ==
    /\ noSearches = 0 /\ synced = 0 /\ resultFile = <<>> /\ startIndex = 0 /\ i = 0
    /\ fOk = TRUE /\ writerErr = FALSE /\ runs = 0 /\ generated = <<>>
    /\ written = <<>> /\ tryStringWriter = FALSE /\ faults = 0 /\ run = NoRunInfo
    /\ prev = NoPrev

InitSel ==
    /\ pc = "select"
    /\ gamesOfLength = EmptyTable
    /\ processed = <<>>
    /\ engine = PlainEngine /\ storage = <<>> /\ game = NilGame
    /\ NoRun

\* addToGamesOfLength called on one more record: a stub or a full game of n half-moves.
Consider ==
    /\ pc = "select"
    /\ Len(processed) < MaxRecords
    /\ \E n \in 0..MaxLen, stub \in BOOLEAN :
          LET index == Len(processed)
              rec == IF stub THEN StubGame(index, SomeMoves(n), n) ELSE FullGame(index, n)
          IN  /\ gamesOfLength' = addToGamesOfLength(gamesOfLength, rec)
              /\ processed' = Append(processed, [g |-> rec, n |-> n])
    /\ UNCHANGED <<noSearches, engine, storage, synced, resultFile, pc, startIndex, i, game,
                   fOk, writerErr, runs, generated, written, tryStringWriter, faults, run, prev>>

NextSel == Consider

SpecSel == InitSel /\ [][NextSel]_vars

\* C1: after addToGamesOfLength has been called on any sequence of records,
\* the record held for each target T is one of them, no processed record is
\* closer to T than it, and every record processed before it is strictly
\* farther from T (first seen wins exact ties).
SelectorCorrect ==
    pc = "select" /\ processed # <<>> =>
        \A T \in Targets :
            \E j \in 1..Len(processed) :
                /\ gamesOfLength[T] = processed[j].g
                /\ \A k \in 1..Len(processed) :
                      dist(T, processed[j].n) <= dist(T, processed[k].n)
                /\ \A k \in 1..(j - 1) :
                      dist(T, processed[j].n) < dist(T, processed[k].n)

\* C1's case: stubs and full games were mixed, and for some target a later
\* record ties the held one at the minimal distance.
SelectorTieSeen ==
    /\ pc = "select"
    /\ \E a, b \in 1..Len(processed) :
          processed[a].g.Positions = <<>> /\ processed[b].g.Positions # <<>>
    /\ \E T \in Targets : \E j, k \in 1..Len(processed) :
          /\ j < k
          /\ gamesOfLength[T] = processed[j].g
          /\ processed[j].n # processed[k].n
          /\ dist(T, processed[j].n) = dist(T, processed[k].n)

\* ---------------------------------------------------------------- storage
\* The line storeGame writes for g, without its "\n".
StoreLine(e, gm) ==
    Itoa(Len(gm.Positions) - 1) \o <<" ">> \o Join(getSANMoves(e, gm))

\* A storeGame whose line never reaches the file.
storeGameLost(e, file, tbl, gm, writeOk) ==
    [file |-> file, tbl |-> addToGamesOfLength(tbl, gm), ret |-> <<>>]

\* storeGame: the line is appended unless the write or the flush fails (the
\* failure is only logged), and the game is passed to the selector either way.
storeGame(e, file, tbl, gm, writeOk) ==
    [file |-> IF writeOk THEN Append(file, StoreLine(e, gm)) ELSE file,
     tbl |-> addToGamesOfLength(tbl, gm),
     ret |-> <<>>]

\* A scan loop body that does not compare the declared length with the tokens.
ParseLineNoCount(line, index) ==
    LET parts == Split(line)
        a == Atoi(parts[1])
    IN  IF a.err THEN [fatal |-> TRUE, g |-> NilGame]
        ELSE [fatal |-> FALSE, g |-> StubGame(index, Tail(parts), a.n)]

\* The body of the scan loop for one line: fatal, or the stub built from it.
ParseLine(line, index) ==
    LET parts == Split(line)
        a == Atoi(parts[1])
        moves == Tail(parts)
    IN  IF a.err THEN [fatal |-> TRUE, g |-> NilGame]
        ELSE IF a.n # Len(moves) THEN [fatal |-> TRUE, g |-> NilGame]
        ELSE [fatal |-> FALSE, g |-> StubGame(index, moves, a.n)]

\* A scan loop that leaves one record early.
BudgetReachedEarly(idx, budget) == idx + 1 >= budget

\* Whether the scan loop leaves after the record that made startIndex = idx.
BudgetReached(idx, budget) == idx >= budget

\* The scan loop of main over the lines the scanner yields, from startIndex = idx.
RECURSIVE ScanLoop(_, _, _, _, _)
ScanLoop(lines, tbl, idx, seen, budget) ==
    IF lines = <<>> THEN [fatal |-> FALSE, tbl |-> tbl, startIndex |-> idx, seen |-> seen]
    ELSE LET r == ParseLine(lines[1], idx)
         IN  IF r.fatal
             THEN [fatal |-> TRUE, tbl |-> tbl, startIndex |-> idx, seen |-> seen]
             ELSE LET t2 == addToGamesOfLength(tbl, r.g)
                      s2 == Append(seen, r.g)
                  IN  IF BudgetReached(idx + 1, budget)
                      THEN [fatal |-> FALSE, tbl |-> t2, startIndex |-> idx + 1, seen |-> s2]
                      ELSE ScanLoop(Tail(lines), t2, idx + 1, s2, budget)

\* ------------------------------------------- storeGame, then the scan loop
\* Every game of at most MaxMoves half-moves, whatever its moves.
RECURSIVE Histories(_)
Histories(n) ==
    IF n = 0 THEN {<<>>}
    ELSE LET shorter == Histories(n - 1)
         IN  shorter \cup {Append(h, m) : h \in {x \in shorter : Len(x) = n - 1}, m \in AllMoves}

PlayedGame(seed, h) ==
    [Tags |-> MkTags(Itoa(seed), <<>>),
     Positions |-> [k \in 1..(Len(h) + 1) |-> SubSeq(h, 1, k - 1)],
     cap |-> Len(h) + 1]

InitStore ==
    /\ pc = "store"
    /\ engine \in {e \in Engines : e.failAt < 0}
    /\ game \in {PlayedGame(0, h) : h \in Histories(MaxMoves)}
    /\ storage = <<>>
    /\ gamesOfLength = EmptyTable
    /\ processed = <<>>
    /\ noSearches = 1 /\ synced = 0 /\ resultFile = <<>> /\ startIndex = 0 /\ i = 0
    /\ fOk = TRUE /\ writerErr = FALSE /\ runs = 0 /\ generated = <<>>
    /\ written = <<>> /\ tryStringWriter = FALSE /\ faults = 0 /\ run = NoRunInfo
    /\ prev = NoPrev

\* storeGame(writer, g) on the empty storage file.
StoreOne ==
    /\ pc = "store"
    /\ LET r == storeGame(engine, storage, gamesOfLength, game, TRUE)
       IN  storage' = r.file /\ gamesOfLength' = r.tbl
    /\ pc' = "scan"
    /\ UNCHANGED <<noSearches, engine, synced, resultFile, startIndex, i, game, fOk,
                   writerErr, runs, processed, generated, written, tryStringWriter, faults, run, prev>>

\* A new process scans the file: the scan loop of main.
ScanBack ==
    /\ pc = "scan"
    /\ LET r == ScanLoop(storage, EmptyTable, 0, <<>>, noSearches)
       IN  /\ pc' = IF r.fatal THEN "fatal" ELSE "scanned"
           /\ gamesOfLength' = r.tbl
           /\ startIndex' = r.startIndex
           /\ processed' = [k \in 1..Len(r.seen) |-> [g |-> r.seen[k], n |-> getGameLength(r.seen[k])]]
    /\ UNCHANGED <<noSearches, engine, storage, synced, resultFile, i, game, fOk,
                   writerErr, runs, generated, written, tryStringWriter, faults, run, prev>>

NextStore == StoreOne \/ ScanBack

SpecStore == InitStore /\ [][NextStore]_vars

StoreRoundTripNonEmpty ==
    pc \in {"scanned", "fatal"} /\ runs = 0 /\ Len(game.Positions) > 1 =>
        /\ pc = "scanned"
        /\ Len(processed) = 1
        /\ getGameLength(processed[1].g) = Len(game.Positions) - 1
        /\ processed[1].g.Tags["sanMoves"] = Join(getSANMoves(engine, game))

\* ------------------------------------------- generateRandomGame, step by step
\* generateRandomGame(i) is called MaxCalls times on one engine; every
\* iteration of its loop ranges over the legal-move map in an order of its own
\* (generated keeps the order of the call's first iteration).
InitGen ==
    /\ pc = "call"
    /\ engine \in Engines
    /\ i \in 0..MaxSeed
    /\ game = NilGame
    /\ processed = <<>>
    /\ generated = <<>>
    /\ storage = <<>>
    /\ gamesOfLength = EmptyTable
    /\ noSearches = 0 /\ synced = 0 /\ resultFile = <<>> /\ startIndex = 0
    /\ fOk = TRUE /\ writerErr = FALSE /\ runs = 0
    /\ written = <<>> /\ tryStringWriter = FALSE /\ faults = 0 /\ run = NoRunInfo
    /\ prev = NoPrev

\* Lines 166-168: the fresh game, the status InProgress and the seeded source.
GenBegin ==
    /\ pc = "call"
    /\ Len(processed) < MaxCalls
    /\ game' = NewGame(i)
    /\ generated' = <<>>
    /\ pc' = "loop"
    /\ UNCHANGED <<noSearches, engine, storage, synced, resultFile, gamesOfLength,
                   startIndex, i, fOk, writerErr, runs, processed, written, tryStringWriter, faults, run, prev>>

\* Lines 169-183: one iteration of the loop.
GenStep ==
    /\ pc = "loop"
    /\ \E iter \in IterOrders :
          LET r == GenIter(engine, game, i, Len(game.Positions) - 1, iter)
          IN  /\ pc' = IF r.panic THEN "panic"
                       ELSE IF r.err THEN "error"
                       ELSE IF r.gs = "InProgress" THEN "loop" ELSE "return"
              /\ game' = IF r.panic \/ r.err THEN NilGame ELSE r.g
              /\ generated' = IF generated = <<>> THEN <<iter>> ELSE generated
    /\ UNCHANGED <<noSearches, engine, storage, synced, resultFile, gamesOfLength,
                   startIndex, i, fOk, writerErr, runs, processed, written, tryStringWriter, faults, run, prev>>

\* Line 184: return g, nil.
GenReturn ==
    /\ pc = "return"
    /\ processed' = Append(processed, [g |-> game, n |-> Len(game.Positions) - 1,
                                       order |-> generated[1]])
    /\ pc' = "call"
    /\ UNCHANGED <<noSearches, engine, storage, synced, resultFile, gamesOfLength,
                   startIndex, i, game, fOk, writerErr, runs, generated, written, tryStringWriter, faults, run, prev>>

NextGen == GenBegin \/ GenStep \/ GenReturn

SpecGen == InitGen /\ [][NextGen]_vars

\* C9: on an engine with no legal move in the initial position the first
\* call ends by returning a record of zero half-moves: it does not crash,
\* return an error or go round the loop again.
EmptyStartReturnsEmptyGame ==
    LegalMoves(engine, <<>>) = {} /\ processed = <<>> /\ pc # "call" =>
        \/ pc = "loop" /\ generated = <<>>
        \/ pc = "return" /\ Len(game.Positions) = 1

\* C10: two calls with the same seed on the same engine return the same
\* positions, hence the same move list and length, whatever the orders
\* the map was ranged over in.
Determinism ==
    \A a, b \in 1..Len(processed) :
        pc \in {"call", "loop", "return"} /\ "order" \in DOMAIN processed[a] =>
            /\ processed[a].g = processed[b].g
            /\ processed[a].n = processed[b].n
            /\ getSANMoves(engine, processed[a].g) = getSANMoves(engine, processed[b].g)

\* C10's case: two calls returned games of two or more half-moves after
\* ranging over the map in different orders.
TwoCallsDifferentOrders ==
    /\ Len(processed) = 2
    /\ "order" \in DOMAIN processed[1]
    /\ processed[1].n >= 2
    /\ processed[1].order # processed[2].order

\* ------------------------------------------------------------ result file
Quote(str) == <<"\"">> \o str \o <<"\"">>

RECURSIVE QuotedList(_)
QuotedList(strs) ==
    IF strs = <<>> THEN <<>>
    ELSE IF Len(strs) = 1 THEN Quote(strs[1])
    ELSE Quote(strs[1]) \o <<",", " ">> \o QuotedList(Tail(strs))

\* fmt's %#v of a []string
GoStrings(strs) ==
    <<"[", "]", "s", "t", "r", "i", "n", "g", "{">> \o QuotedList(strs) \o <<"}">>

\* The record of line 131 for tag Tags["#"], n half-moves and target l.
ResultRecord(tag, n, l, sanMoves) ==
    <<"{", "\n", "\t", "\"", "R", "a", "n", "d", "o", "m", "-", "g", "a", "m", "e", "-", "#">>
    \o tag
    \o <<"_", "h", "a", "l", "f", "-", "m", "o", "v", "e", "s", "-">>
    \o Itoa(n)
    \o <<"_", "t", "a", "r", "g", "e", "t", "-">>
    \o Itoa(l)
    \o <<"\"", ",", " ", "\"", "\"", ",", "\n", "\t">>
    \o GoStrings(sanMoves)
    \o <<",", "\n", "}", ",", "\n">>

\* bufio.Writer.WriteString on the writer w = [buf, out, err]: out is what
\* reached the file.  While the string does not fit, the buffer is filled and
\* flushed, or (forward: Go versions whose WriteString hands a large string
\* to the file when the buffer is empty) the string is written directly; what
\* fits at the end stays in the buffer.
RECURSIVE WriteString(_, _, _, _)
WriteString(w, str, fileOk, forward) ==
    IF Len(str) > BufSize - Len(w.buf) /\ ~w.err
    THEN IF w.buf = <<>> /\ forward
         THEN IF fileOk THEN [w EXCEPT !.out = @ \o str] ELSE [w EXCEPT !.err = TRUE]
         ELSE LET n == BufSize - Len(w.buf)
                  full == w.buf \o SubSeq(str, 1, n)
                  rest == SubSeq(str, n + 1, Len(str))
              IN  IF fileOk
                  THEN WriteString([w EXCEPT !.buf = <<>>, !.out = @ \o full],
                                   rest, fileOk, forward)
                  ELSE [w EXCEPT !.buf = full, !.err = TRUE]
    ELSE IF w.err THEN w ELSE [w EXCEPT !.buf = @ \o str]

NewWriter == [buf |-> <<>>, out |-> <<>>, err |-> FALSE]

\* What main leaves of the writer at its end: nothing more reaches the file.
AtEndOfMain(w) == w

\* The file after bytes were written from offset 0 of a file opened with
\* O_WRONLY|O_CREATE.
Overwrite(old, bytes) == bytes \o SubSeq(old, Len(bytes) + 1, Len(old))

\* lengths: the keys of the table in ascending order (lines 99-105).
RECURSIVE Ascending(_)
Ascending(S) ==
    IF S = {} THEN <<>>
    ELSE LET lo == CHOOSE x \in S : \A y \in S : x <= y
         IN  <<lo>> \o Ascending(S \ {lo})

\* Lines 121-129: the stub's stored move list is not the regenerated one.
Mismatch(e, lg, full) ==
    /\ lg.Tags["sanMoves"] # <<>>
    /\ lg.Tags["sanMoves"] # Join(getSANMoves(e, full))

\* A reporter that gives up on a mismatch.
MismatchEndsRunStrict(mm) == mm

\* Whether a mismatch ends the run: it is logged and nothing else (lines 124-128).
MismatchEndsRun(mm) == FALSE

\* The loop of lines 106-134 over the targets ls still to report:
\* [w, written, recs, panic], recs telling of each record written its target
\* l, the tag, half-move count and move list printed, the length sel the
\* selector held for the game, and whether the moves mismatched (mm).
RECURSIVE ReportLoop(_, _, _, _, _, _, _, _, _)
ReportLoop(e, tbl, ls, w, sofar, recs, fileOk, forward, iter) ==
    IF ls = <<>> THEN [w |-> w, written |-> sofar, recs |-> recs, panic |-> FALSE]
    ELSE
    LET l == ls[1]
        lg == tbl[l]
    IN  IF lg = NilGame THEN [w |-> w, written |-> sofar, recs |-> recs, panic |-> TRUE]
        ELSE
        LET stub == Len(lg.Positions) = 0
            a == Atoi(lg.Tags["#"])
            r == generateRandomGame(e, a.n, iter)
        IN  IF stub /\ a.err
            THEN ReportLoop(e, tbl, Tail(ls), w, sofar, recs, fileOk, forward, iter)
            ELSE IF stub /\ (r.panic \/ r.err)
            THEN [w |-> w, written |-> sofar, recs |-> recs, panic |-> TRUE]
            ELSE
            LET full == IF stub THEN [r.g EXCEPT !.Tags = lg.Tags] ELSE lg
                sanMoves == getSANMoves(e, full)
                text == ResultRecord(full.Tags["#"], Len(full.Positions) - 1, l, sanMoves)
                rec == [l |-> l, tag |-> full.Tags["#"], n |-> Len(full.Positions) - 1,
                        moves |-> sanMoves, sel |-> getGameLength(lg), stub |-> stub,
                        mm |-> Mismatch(e, lg, full)]
            IN  IF MismatchEndsRun(rec.mm)
                THEN [w |-> w, written |-> sofar, recs |-> recs, panic |-> TRUE]
                ELSE ReportLoop(e, tbl, Tail(ls), WriteString(w, text, fileOk, forward),
                                sofar \o text, Append(recs, rec), fileOk, forward, iter)

\* ------------------------------------------------------------------- main
\* Two of the orders a map may be ranged over, for the calls made by main.
MainOrders ==
    {s \in IterOrders : \/ \A k \in 1..(Len(s) - 1) : StrLess(MoveString(s[k]), MoveString(s[k + 1]))
                        \/ \A k \in 1..(Len(s) - 1) : StrLess(MoveString(s[k + 1]), MoveString(s[k]))}

\* The line storeGame writes for seed k (when its generation succeeds).
SeedLine(e, k) ==
    LET r == generateRandomGame(e, k, CHOOSE iter \in IterOrders : TRUE)
    IN  IF r.panic \/ r.err THEN <<"x">> ELSE StoreLine(e, r.g)

\* Lines a storage file may hold at 0-based position k before the first run:
\* the one seed k gives, one of another game, and two corrupt ones.
CandidateLines(e, k) ==
    {SeedLine(e, k), <<"1", " ", "c", "a", "#">>, <<"x", " ", "a", "b">>,
     <<"2", " ", "a", "b">>}

\* The storage files before the first run: at most MaxInitLines lines, at
\* most one of them not the line of its seed.
InitialFiles(e) ==
    UNION {{f \in [1..n -> UNION {CandidateLines(e, k) : k \in 0..(n - 1)}] :
                /\ \A k \in 1..n : f[k] \in CandidateLines(e, k - 1)
                /\ Cardinality({k \in 1..n : f[k] # SeedLine(e, k - 1)}) <= 1} :
           n \in 0..MaxInitLines}

OldResult == [k \in 1..OldResultLen |-> "z"]

Init ==
    /\ noSearches \in 0..MaxSearches
    /\ engine \in Engines
    /\ storage \in InitialFiles(engine)
    /\ resultFile \in {<<>>, OldResult}
    /\ pc = "idle"
    /\ gamesOfLength = EmptyTable
    /\ synced = Len(storage) /\ startIndex = 0 /\ i = 0 /\ game = NilGame
    /\ fOk = TRUE /\ writerErr = FALSE /\ runs = 0
    /\ processed = <<>> /\ generated = <<>> /\ written = <<>>
    /\ tryStringWriter \in BOOLEAN
    /\ faults = 0 /\ run = NoRunInfo /\ prev = NoPrev

\* The outcomes of a file operation: it may fail while faults are left.
Outcomes == IF faults < MaxFaults THEN BOOLEAN ELSE {TRUE}

Stopped == {"done", "returned", "fatal", "panic", "killed"}

\* Whether scanner.Err() is non-nil after a scan loop that ended at idx, the
\* scanner being able to yield only the first yielded of the file's lines.
ScanError(file, yielded, res, budget) ==
    /\ ~res.fatal
    /\ yielded < Len(file)
    /\ res.startIndex = yielded
    /\ ~(yielded >= 1 /\ BudgetReached(yielded, budget))

\* Lines 35-73 of a new process: the storage file is opened (openOk) and
\* scanned; the scanner yields the first `readable` lines before a read error.
Load ==
    /\ pc \in Stopped \cup {"idle"}
    /\ runs < MaxRuns
    /\ \E openOk \in Outcomes, readOk \in Outcomes, cut \in 0..Len(storage) :
          LET readable == IF readOk THEN Len(storage) ELSE cut
              yielded == IF openOk THEN readable ELSE 0
              res == ScanLoop(SubSeq(storage, 1, yielded), EmptyTable, 0, <<>>, noSearches)
          IN  /\ pc' = IF res.fatal THEN "fatal" ELSE "gen"
              /\ gamesOfLength' = res.tbl
              /\ startIndex' = res.startIndex
              /\ i' = res.startIndex
              /\ processed' = [k \in 1..Len(res.seen) |->
                                  [g |-> res.seen[k], n |-> getGameLength(res.seen[k])]]
              /\ fOk' = openOk
              /\ run' = [lines |-> Len(storage), yielded |-> yielded,
                         readErr |-> ~openOk \/ ScanError(storage, yielded, res, noSearches),
                         result0 |-> resultFile, wrFailed |-> FALSE,
                         syncFailed |-> FALSE, resOpenFailed |-> FALSE,
                         storeRet |-> <<>>, reported |-> <<>>]
              /\ faults' = IF run'.readErr THEN faults + 1 ELSE faults
    /\ prev' = [done |-> pc = "done",
                clean |-> ~(run.readErr \/ run.wrFailed \/ run.syncFailed \/ run.resOpenFailed),
                result |-> resultFile]
    /\ runs' = runs + 1
    /\ writerErr' = FALSE /\ game' = NilGame /\ generated' = <<>> /\ written' = <<>>
    /\ UNCHANGED <<noSearches, engine, storage, synced, resultFile, tryStringWriter>>

\* Lines 74-80: generateRandomGame(i); an error is fatal, a panic ends the process.
Generate ==
    /\ pc = "gen"
    /\ i < noSearches
    /\ \E iter \in MainOrders :
          LET r == generateRandomGame(engine, i, iter)
          IN  /\ pc' = IF r.panic THEN "panic" ELSE IF r.err THEN "fatal" ELSE "store"
              /\ game' = r.g
    /\ generated' = Append(generated, i)
    /\ UNCHANGED <<noSearches, engine, storage, synced, resultFile, gamesOfLength,
                   startIndex, i, fOk, writerErr, runs, processed, written, tryStringWriter, faults, run, prev>>

\* Line 81: storeGame(writer, g); the write or the flush may fail.
Store ==
    /\ pc = "store"
    /\ \E writeOk \in Outcomes :
          LET ok == fOk /\ ~writerErr /\ writeOk
              r == storeGame(engine, storage, gamesOfLength, game, ok)
          IN  /\ storage' = r.file
              /\ gamesOfLength' = r.tbl
              /\ writerErr' = ~ok
              /\ run' = [run EXCEPT !.wrFailed = @ \/ ~ok, !.storeRet = r.ret]
              /\ faults' = IF writeOk THEN faults ELSE faults + 1
    /\ processed' = Append(processed, [g |-> game, n |-> Len(game.Positions) - 1])
    /\ pc' = "sync"
    /\ UNCHANGED <<noSearches, engine, synced, resultFile, startIndex, i, game, fOk,
                   runs, generated, written, tryStringWriter, prev>>

\* What main does after f.Sync: the next seed, or (line 84) return.
AfterSync(ok) == IF ok THEN "gen" ELSE "returned"

\* Lines 82-85: f.Sync(), which may fail.
Sync ==
    /\ pc = "sync"
    /\ \E syncOk \in Outcomes :
          LET ok == fOk /\ syncOk
          IN  /\ pc' = AfterSync(ok)
              /\ synced' = IF ok THEN Len(storage) ELSE synced
              /\ i' = IF pc' = "gen" THEN i + 1 ELSE i
              /\ run' = [run EXCEPT !.syncFailed = @ \/ ~ok]
              /\ faults' = IF syncOk THEN faults ELSE faults + 1
    /\ UNCHANGED <<noSearches, engine, storage, resultFile, gamesOfLength, startIndex,
                   game, fOk, writerErr, runs, processed, generated, written,
                   tryStringWriter, prev>>

\* Lines 87-135: the result file is opened (resOpenOk) and one record per
\* target is written through a bufio.Writer; main then ends.
Report ==
    /\ pc = "gen"
    /\ i >= noSearches
    /\ \E resOpenOk \in Outcomes, iter \in MainOrders :
          LET rep == ReportLoop(engine, gamesOfLength, Ascending(Targets), NewWriter, <<>>, <<>>,
                                resOpenOk, tryStringWriter, iter)
          IN  /\ pc' = IF rep.panic THEN "panic" ELSE "done"
              /\ resultFile' = IF resOpenOk THEN Overwrite(resultFile, AtEndOfMain(rep.w).out)
                               ELSE resultFile
              /\ written' = rep.written
              /\ run' = [run EXCEPT !.resOpenFailed = ~resOpenOk, !.reported = rep.recs]
              /\ faults' = IF resOpenOk THEN faults ELSE faults + 1
    /\ UNCHANGED <<noSearches, engine, storage, synced, gamesOfLength, startIndex, i,
                   game, fOk, writerErr, runs, processed, generated, tryStringWriter, prev>>

\* The process is killed between two steps of the generation loop.
Kill ==
    /\ pc \in {"gen", "store", "sync"}
    /\ pc' = "killed"
    /\ UNCHANGED <<noSearches, engine, storage, synced, resultFile, gamesOfLength,
                   startIndex, i, game, fOk, writerErr, runs, processed, generated,
                   written, tryStringWriter, faults, run, prev>>

Next == Load \/ Generate \/ Store \/ Sync \/ Report \/ Kill

Spec == Init /\ [][Next]_vars

\* The pipeline in an environment where no file operation fails: runs end by
\* themselves or are killed.
NextReliable ==
    \/ Load /\ faults' = 0
    \/ Generate
    \/ Store /\ faults' = 0
    \/ Sync /\ faults' = 0
    \/ Report /\ faults' = 0
    \/ Kill

SpecReliable == Init /\ [][NextReliable]_vars

\* ----------------------------------------------------- claims on the runs
IsPrefix(a, b) == Len(a) <= Len(b) /\ SubSeq(b, 1, Len(a)) = a

\* C2: a run that follows a run which reached the end of main (same budget,
\* same targets, storage file untouched in between, no file operation
\* failing) generates no seed, appends no line, and leaves the result file
\* as the first run left it.
ResumptionIdempotence ==
    prev.done =>
        /\ generated = <<>>
        /\ Len(storage) = run.lines
        /\ pc = "done" => resultFile = prev.result

\* C2's case: a second run reached the end of main after a first one did, on
\* a storage file of two or more lines, having emitted records.
SecondRunCompleted ==
    /\ prev.done /\ pc = "done" /\ runs >= 2
    /\ run.lines >= 2
    /\ written # <<>>

\* The storage file holds, at each 0-based position k, the line of seed k.
Aligned(file) == \A k \in 1..Len(file) : file[k] = SeedLine(engine, k - 1)

\* C3: a storage file that was aligned when a run started (position k holds
\* the record of seed k) is aligned at every later moment of that run, be
\* the run completed, killed, or started after a scan that a read error
\* stopped early.
SeedLineAlignment ==
    runs >= 1 /\ Aligned(SubSeq(storage, 1, run.lines)) => Aligned(storage)

\* C4: with no file operation failing, when generation of the next seed may
\* begin every seed generated in this run has its line in the file and
\* synced; a killed run lacks the line of at most the last generated game;
\* and the seeds a run generates are, in order, those from the file's line
\* count upwards, so none that has a line.
CrashSafetyBoundary ==
    /\ pc = "gen" /\ generated # <<>> =>
          /\ Len(storage) = run.lines + Len(generated)
          /\ synced = Len(storage)
    /\ pc = "killed" =>
          Len(storage) - run.lines \in {Len(generated) - 1, Len(generated)}
    /\ \A k \in 1..Len(generated) : generated[k] = run.lines + k - 1

\* C4's case: a run was killed with a game in progress after it had stored
\* a game, the run before it having been killed too.
KilledAgainInProgress ==
    /\ pc = "killed" /\ runs >= 2 /\ ~prev.done
    /\ run.lines >= 1
    /\ Len(generated) >= 2
    /\ Len(storage) = run.lines + Len(generated) - 1

\* A line with an unparseable leading integer, or a declared length that is
\* not its number of move tokens.
Corrupt(line) ==
    LET parts == Split(line)
        a == Atoi(parts[1])
    IN  a.err \/ a.n # Len(parts) - 1

\* What C6 promises of a run: it ended in the load phase's fatal error and
\* generated, appended and reported nothing.
AbortedInLoad ==
    /\ pc = "fatal"
    /\ generated = <<>>
    /\ Len(storage) = run.lines
    /\ written = <<>>
    /\ resultFile = run.result0

\* C6 as stated: a corrupt line anywhere in the storage file makes the run
\* abort in the load phase.
CorruptionAlwaysFatal ==
    runs >= 1 /\ (\E k \in 1..run.lines : Corrupt(storage[k])) => AbortedInLoad

\* C6, amended: a corrupt line among those the load phase reads (the first
\* line, and the lines at 0-based positions below the search budget) makes
\* the run abort in the load phase.
CorruptionDetected ==
    runs >= 1 /\ (\E k \in 1..run.lines :
                     Corrupt(storage[k]) /\ (k = 1 \/ k <= noSearches))
        => AbortedInLoad

\* C6's case: the load phase accepted the first line and aborted on a second
\* line whose declared length is not its number of tokens.
CorruptSecondLine ==
    /\ pc = "fatal" /\ run.lines >= 2
    /\ ~Corrupt(storage[1])
    /\ Corrupt(storage[2]) /\ ~Atoi(Split(storage[2])[1]).err

\* C7: when a run has reached the end of main, the result file holds every
\* record that was written to the result writer.
ResultComplete ==
    pc = "done" /\ ~run.resOpenFailed => IsPrefix(written, resultFile)

\* C8: when a run has reached the end of main, the result file holds
\* nothing but the records of that run.
ResultFresh ==
    pc = "done" /\ ~run.resOpenFailed => IsPrefix(resultFile, written)

\* -------------------------------------------------- claims on the failures
\* The seeds 0 .. n-1 in increasing order.
SeedsBelow(n) == [k \in 1..n |-> k - 1]

\* C11: after f.Sync has failed on an open storage file the run goes on: it
\* does not leave main before the remaining seeds are generated and the
\* result records written.
SyncFailureContinues ==
    run.syncFailed /\ fOk => pc # "returned"

\* C12: a run whose storage file could not be opened still generates every
\* seed from 0 up to the budget and reaches the result phase (the engine
\* being one on which generation succeeds).
OpenFailureContinues ==
    runs >= 1 /\ ~fOk /\ engine = PlainEngine /\ pc \in Stopped \ {"killed"} =>
        /\ pc \in {"done", "panic"}
        /\ generated = SeedsBelow(noSearches)

\* Whether generateRandomGame(seed) returns an error on this engine.
GenErr(seed) == generateRandomGame(engine, seed, CHOOSE it \in IterOrders : TRUE).err

\* The targets whose selected record is a stub that the reporter cannot regenerate.
RegenFails ==
    {T \in Targets : /\ gamesOfLength[T] # NilGame
                     /\ gamesOfLength[T].Positions = <<>>
                     /\ GenErr(Atoi(gamesOfLength[T].Tags["#"]).n)}

MismatchAt(T) ==
    LET lg == gamesOfLength[T]
        r == generateRandomGame(engine, Atoi(lg.Tags["#"]).n, CHOOSE it \in IterOrders : TRUE)
    IN  /\ lg # NilGame /\ lg.Positions = <<>>
        /\ ~r.err /\ ~r.panic
        /\ lg.Tags["sanMoves"] # <<>>
        /\ lg.Tags["sanMoves"] # Join(getSANMoves(engine, r.g))

\* C14: when the reporter has run on a table with a selected stub whose
\* stored moves differ from the regenerated ones, the run reached the end of
\* main and a record was written for every target, in ascending order, each
\* with the seed tag of the record selected for it.
MismatchNonFatal ==
    /\ pc \in {"done", "panic"} /\ engine = PlainEngine
    /\ \A T \in Targets : gamesOfLength[T] # NilGame
    /\ \E T \in Targets : MismatchAt(T)
    => /\ pc = "done"
       /\ Len(run.reported) = Cardinality(Targets)
       /\ \A k \in 1..Len(run.reported) :
             /\ run.reported[k].l = Ascending(Targets)[k]
             /\ run.reported[k].tag = gamesOfLength[run.reported[k].l].Tags["#"]

\* C14's case: the first target's record came from a mismatching stub and
\* the records of the later targets were written after it.
MismatchReported ==
    /\ pc = "done"
    /\ Len(run.reported) = Cardinality(Targets)
    /\ run.reported[1].mm
    /\ MismatchAt(run.reported[1].l)

\* C15: when the write or the flush of a line failed inside storeGame, what
\* storeGame returned to main carries the error.
StoreErrorReturned ==
    pc = "sync" /\ run.wrFailed => run.storeRet # <<>>

\* ------------------------------------------------ claims on the selection
\* The seed index a record carries in Tags["#"].
SeedOf(g) == Atoi(g.Tags["#"]).n

\* C16: the records given to addToGamesOfLength in a run are those of the
\* seeds 0, 1, 2, ... in this order, each once and none left out, the stubs
\* loaded from storage before the freshly generated games.
StreamingOrder ==
    /\ \A k \in 1..Len(processed) : SeedOf(processed[k].g) = k - 1
    /\ \A j, k \in 1..Len(processed) :
          j < k /\ processed[k].g.Positions = <<>> => processed[j].g.Positions = <<>>
    /\ Cardinality({k \in 1..Len(processed) : processed[k].g.Positions = <<>>}) = startIndex

\* C16's case: a run has fed the selector a stub first and at least two
\* generated games after it.
StubsThenFresh ==
    /\ runs >= 1 /\ Len(processed) >= 3
    /\ processed[1].g.Positions = <<>>
    /\ processed[2].g.Positions # <<>>
    /\ processed[3].g.Positions # <<>>

\* C17: a run loads, generates and feeds to the selector only records whose
\* seed index is below the budget, at most noSearches of them.
BudgetHardCap ==
    /\ \A k \in 1..Len(processed) : SeedOf(processed[k].g) < noSearches
    /\ \A k \in 1..Len(generated) : generated[k] < noSearches
    /\ Len(processed) <= noSearches

\* The same for budgets of one or more.
BudgetCapPositive ==
    noSearches >= 1 => BudgetHardCap

\* The table after addToGamesOfLength was given the freshly generated games
\* of the seeds 0 .. n-1 in this order.
RECURSIVE FreshTable(_, _)
FreshTable(e, n) ==
    IF n = 0 THEN EmptyTable
    ELSE addToGamesOfLength(FreshTable(e, n - 1),
                            generateRandomGame(e, n - 1, CHOOSE it \in IterOrders : TRUE).g)

\* C18: at the end of the load and generation phases of a run whose storage
\* file held the lines of the seeds 0 .. k-1 (k <= N), every target holds
\* the seed it would hold had all N games been generated fresh.
SelectionSourceIndependent ==
    /\ pc = "gen" /\ i >= noSearches /\ engine = PlainEngine
    /\ run.lines <= noSearches
    /\ Aligned(SubSeq(storage, 1, run.lines))
    => \A T \in Targets :
          LET fresh == FreshTable(engine, noSearches)[T]
          IN  IF fresh = NilGame THEN gamesOfLength[T] = NilGame
              ELSE /\ gamesOfLength[T] # NilGame
                   /\ SeedOf(gamesOfLength[T]) = SeedOf(fresh)

\* C18's case: some but not all of the games were loaded as stubs, and one
\* target holds a stub while another holds a generated game.
MixedSelection ==
    /\ pc = "gen" /\ i >= noSearches /\ engine = PlainEngine
    /\ 1 <= startIndex /\ startIndex < noSearches
    /\ Aligned(SubSeq(storage, 1, run.lines))
    /\ \E T, U \in Targets :
          /\ gamesOfLength[T] # NilGame /\ gamesOfLength[T].Positions = <<>>
          /\ gamesOfLength[U] # NilGame /\ gamesOfLength[U].Positions # <<>>

\* C19: when the result phase is reached every target holds a record.
ReporterPrecondition ==
    pc = "gen" /\ i >= noSearches => \A T \in Targets : gamesOfLength[T] # NilGame

\* The same for budgets of one or more.
ReporterPreconditionPositive ==
    noSearches >= 1 => ReporterPrecondition

\* C20 as stated: in every record written, the half-move count printed is
\* the number of moves printed and the length the selector held for the
\* game (budgets of one or more).
ReportedLengthIsSelected ==
    noSearches >= 1 => \A k \in 1..Len(run.reported) :
        /\ run.reported[k].n = Len(run.reported[k].moves)
        /\ run.reported[k].n = run.reported[k].sel

\* C20, amended: the count printed is the number of moves printed, and it
\* is the selector's length unless the record came from a stub whose stored
\* move list is not the regenerated one.
ReportedLengthUnlessMismatch ==
    \A k \in 1..Len(run.reported) :
        /\ run.reported[k].n = Len(run.reported[k].moves)
        /\ ~run.reported[k].mm => run.reported[k].n = run.reported[k].sel

\* C20's case: a run wrote the record of a stub it regenerated without a
\* mismatch and the record of a game it had generated.
StubAndFreshReported ==
    /\ pc = "done"
    /\ \E j, k \in 1..Len(run.reported) :
          /\ run.reported[j].stub /\ ~run.reported[j].mm
          /\ ~run.reported[k].stub

====
